---- MODULE Spec2Model ----
(***************************************************************************)
(* Model of src/index.js (accepts): the four negotiation operations of an  *)
(* Accepts context, the process-wide negotiationCache and mimeCache, the   *)
(* cache keys they build and the eviction of the negotiationCache.         *)
(*                                                                         *)
(* JavaScript strings are sequences of one-character strings, so that key  *)
(* concatenation, Array.prototype.join and indexOf('/') are computed and   *)
(* not assumed.  JavaScript values that a call can return (undefined,      *)
(* false, a string, an array of strings) are records of one shape.         *)
(***************************************************************************)
EXTENDS Naturals, Sequences, FiniteSets, TLC

VARIABLES negotiationCache, mimeCache, writer, last, watch, watching, proc

vars == <<negotiationCache, mimeCache, writer, last, watch, watching, proc>>

(***************************************************************************)
(* Sizes.  The source sets CACHE_SIZE_LIMIT to 1000 and deletes 100 keys   *)
(* per eviction; the model keeps the code and scales the two numbers so    *)
(* that the store fills and evicts within the explored runs.               *)
(***************************************************************************)
CACHE_SIZE_LIMIT == 2

EVICT_COUNT == 1

\* The number of contexts (accepts(req) objects) that make calls side by side
\* in the runs that take a call one statement group at a time.
NUM_CONTEXTS == 2

(***************************************************************************)
(* JavaScript values                                                       *)
(***************************************************************************)
Undefined == [tag |-> "undefined", str |-> <<>>, list |-> <<>>]

False == [tag |-> "false", str |-> <<>>, list |-> <<>>]

Str(s) == [tag |-> "string", str |-> s, list |-> <<>>]

Arr(l) == [tag |-> "array", str |-> <<>>, list |-> l]

\* JavaScript truthiness of the values above ('' and an absent value are falsy,
\* every array is truthy).
Truthy(v) ==
    \/ v.tag = "array"
    \/ v.tag = "string" /\ Len(v.str) > 0

\* Array.prototype.join on an array of strings.
RECURSIVE Join(_, _)
Join(list, sep) ==
    IF Len(list) = 0 THEN <<>>
    ELSE IF Len(list) = 1 THEN list[1]
    ELSE list[1] \o sep \o Join(Tail(list), sep)

\* String.prototype.indexOf(ch) !== -1
Contains(s, ch) == \E i \in 1..Len(s) : s[i] = ch

(***************************************************************************)
(* Map: a JavaScript Map is the sequence of its entries in insertion order *)
(***************************************************************************)
MapHas(m, k) == \E i \in 1..Len(m) : m[i].key = k

\* A get that reports false for every key present.
MapGetFalse(m, k) == IF \E i \in 1..Len(m) : m[i].key = k THEN False ELSE Undefined

\* A get that finds nothing.
MapGetNothing(m, k) == Undefined

MapGet(m, k) ==
    IF MapHas(m, k)
    THEN (m[CHOOSE i \in 1..Len(m) : m[i].key = k]).val
    ELSE Undefined

\* A set that takes effect only on a key already present.
MapSetPresentOnly(m, k, v) ==
    [i \in 1..Len(m) |-> IF m[i].key = k THEN [key |-> k, val |-> v] ELSE m[i]]

\* Map.prototype.set: a present key keeps its place and takes the new value,
\* a new key goes last.
MapSet(m, k, v) ==
    IF MapHas(m, k)
    THEN [i \in 1..Len(m) |-> IF m[i].key = k THEN [key |-> k, val |-> v] ELSE m[i]]
    ELSE Append(m, [key |-> k, val |-> v])

\* Map.prototype.delete
MapDelete(m, k) ==
    LET Keep(e) == e.key # k IN SelectSeq(m, Keep)

MapKeys(m) == [i \in 1..Len(m) |-> m[i].key]

(***************************************************************************)
(* Strings of the explored requests and candidate lists: h is the html     *)
(* extension, z an extension the table does not know, t/h and a/j the      *)
(* media types text/html and application/json, u utf-8, e en, s es.        *)
(***************************************************************************)
Empty == <<>>

Html == <<"h">>

Zzz == <<"z">>

TextHtml == <<"t", "/", "h">>

AppJson == <<"a", "/", "j">>

HtmlCommaX == <<"h", ",", "x">>

XCommaY == <<"x", ",", "y">>

Y == <<"y">>

Utf8 == <<"u">>

En == <<"e">>

Es == <<"s">>

Star == <<"*">>

(***************************************************************************)
(* External collaborators: require('mime-types') and require('negotiator') *)
(***************************************************************************)
\* mime.lookup(extension): the static extension table; false for an unknown
\* extension.
MimeLookup(type) ==
    IF type = Html THEN Str(TextHtml) ELSE False

RECURSIVE Split(_, _)
Split(s, ch) ==
    IF Contains(s, ch)
    THEN LET i == CHOOSE k \in 1..Len(s) :
                      s[k] = ch /\ \A m \in 1..(k - 1) : s[m] # ch
         IN <<SubSeq(s, 1, i - 1)>> \o Split(SubSeq(s, i + 1, Len(s)), ch)
    ELSE <<s>>

\* The values a header accepts, best first: the comma separated members of the
\* header value; an absent header accepts anything.
Accepted(header) ==
    IF header.tag = "undefined" THEN <<Star>>
    ELSE LET NonEmpty(p) == Len(p) > 0 IN SelectSeq(Split(header.str, ","), NonEmpty)

Matches(range, candidate) == range = Star \/ range = candidate

\* The place in the header of the first member that accepts the candidate, 0
\* when no member does.
Priority(ranges, candidate) ==
    IF \E o \in 1..Len(ranges) : Matches(ranges[o], candidate)
    THEN CHOOSE o \in 1..Len(ranges) :
             /\ Matches(ranges[o], candidate)
             /\ \A m \in 1..(o - 1) : ~Matches(ranges[m], candidate)
    ELSE 0

RECURSIVE Ranked(_, _, _)
Ranked(ranges, provided, o) ==
    IF o > Len(ranges) THEN <<>>
    ELSE LET At(c) == Priority(ranges, c) = o
         IN SelectSeq(provided, At) \o Ranked(ranges, provided, o + 1)

\* The Negotiation Engine: with no candidates every value the header accepts,
\* best first; with candidates those the header accepts, best first, ties in
\* the order offered.
Engine(header, provided) ==
    IF provided.tag = "undefined" THEN Accepted(header)
    ELSE Ranked(Accepted(header), provided.list, 1)

\* new Negotiator(req) and its four entry points
Negotiator(req) == [request |-> req]

mediaTypes(negotiator, provided) == Engine(negotiator.request.headers["accept"], provided)

negotiatorEncodings(negotiator, provided) ==
    Engine(negotiator.request.headers["accept-encoding"], provided)

negotiatorCharsets(negotiator, provided) ==
    Engine(negotiator.request.headers["accept-charset"], provided)

negotiatorLanguages(negotiator, provided) ==
    Engine(negotiator.request.headers["accept-language"], provided)

\* One invocation of the Engine, as a call observes it.
EngineCall(entry, header, provided) ==
    [entry |-> entry, header |-> header, provided |-> provided]

(***************************************************************************)
(* src/index.js                                                            *)
(***************************************************************************)
\* function Accepts (req)
Accepts(req) == [headers |-> req.headers, negotiator |-> Negotiator(req)]

\* A validMime that accepts every value.
validMimeAny(type) == TRUE

\* function validMime (type)
validMime(type) == type.tag = "string"

\* extToMimeCached with `if (cached)` for `if (cached !== undefined)`: a cached
\* false is looked up again.
extToMimeCachedTruthy(type, mc) ==
    IF Contains(type, "/")
    THEN [val |-> Str(type), mc |-> mc, looked |-> <<>>]
    ELSE LET cached == IF type \in DOMAIN mc THEN mc[type] ELSE Undefined
         IN IF Truthy(cached)
            THEN [val |-> cached, mc |-> mc, looked |-> <<>>]
            ELSE LET result == MimeLookup(type)
                 IN [val |-> result, mc |-> (type :> result) @@ mc, looked |-> <<type>>]

\* function extToMimeCached (type): the value, the mimeCache after the call and
\* the tokens handed to mime.lookup.
extToMimeCached(type, mc) ==
    IF Contains(type, "/")
    THEN [val |-> Str(type), mc |-> mc, looked |-> <<>>]
    ELSE LET cached == IF type \in DOMAIN mc THEN mc[type] ELSE Undefined
         IN IF cached # Undefined
            THEN [val |-> cached, mc |-> mc, looked |-> <<>>]
            ELSE LET result == MimeLookup(type)
                 IN [val |-> result, mc |-> (type :> result) @@ mc, looked |-> <<type>>]

\* function extToMime (type): the resolution without the mimeCache.
extToMime(type) == IF ~Contains(type, "/") THEN MimeLookup(type) ELSE Str(type)

\* clearCacheEntries with its test of next.done inverted: it breaks at the
\* first key and deletes nothing.
clearCacheEntriesBreaksFirst(nc, keys, i) == nc

\* function clearCacheEntries (): the loop over negotiationCache.keys(), which
\* stops when the iterator is done.
RECURSIVE clearCacheEntries(_, _, _)
clearCacheEntries(nc, keys, i) ==
    IF i >= EVICT_COUNT THEN nc
    ELSE IF i + 1 > Len(keys) THEN nc
    ELSE clearCacheEntries(MapDelete(nc, keys[i + 1]), keys, i + 1)

\* The eviction loop of types deleting from the newest key backwards.
RECURSIVE typesEvictNewest(_, _, _)
typesEvictNewest(nc, keys, j) ==
    IF j >= EVICT_COUNT \/ j >= Len(keys) THEN nc
    ELSE typesEvictNewest(MapDelete(nc, keys[Len(keys) - j]), keys, j + 1)

\* The eviction loop inside types, which deletes keys.next().value without
\* looking at done: deleting undefined removes nothing.
RECURSIVE typesEvict(_, _, _)
typesEvict(nc, keys, j) ==
    IF j >= EVICT_COUNT THEN nc
    ELSE LET next == IF j + 1 > Len(keys) THEN Undefined ELSE Str(keys[j + 1])
         IN typesEvict(IF next.tag = "string" THEN MapDelete(nc, next.str) ELSE nc,
                       keys, j + 1)

\* "support flattened arguments": the candidate argument after the first lines
\* of each operation. first is the first argument as passed (an array, a
\* string, or undefined when nothing is passed).
FirstArgument(form, args) ==
    IF form = "array" THEN Arr(args)
    ELSE IF Len(args) = 0 THEN Undefined
    ELSE Str(args[1])

flatten(form, args) ==
    LET first == FirstArgument(form, args)
    IN IF Truthy(first) /\ first.tag # "array" THEN Arr(args) ELSE first

\* What one call did: the value returned, both caches after it, the Engine
\* invocations it made, the tokens it handed to extToMimeCached and those that
\* reached mime.lookup, and the path it took.
Outcome(ret, nc, mc, engine, resolved, looked, path) ==
    [ret |-> ret, nc |-> nc, mc |-> mc, engine |-> engine, resolved |-> resolved,
     looked |-> looked, path |-> path]

\* The cache keys of the four operations.
typesCacheKey(accept, list) == accept \o <<"|">> \o Join(list, <<",">>)

encodingsCacheKey(header, list) ==
    <<"e", "n", "c", ":">> \o header \o <<"|">> \o Join(list, <<",">>)

charsetsCacheKey(header, list) ==
    <<"c", "h", "r", ":">> \o header \o <<"|">> \o Join(list, <<",">>)

languagesCacheKey(header, list) ==
    <<"l", "n", "g", ":">> \o header \o <<"|">> \o Join(list, <<",">>)

\* The test of types for a missing Accept written as a test for the empty
\* string.
noAcceptHeaderEmptyOnly(this) == this.headers["accept"] = Str(Empty)

\* The test of types for a missing Accept never succeeding.
noAcceptHeaderNever(this) == FALSE

\* if (!this.headers.accept)
noAcceptHeader(this) == ~Truthy(this.headers["accept"])

\* The loop of types over its candidates: resolves each, keeps the valid ones
\* in mimes and sets mimeMap[mime] to the candidate.
RECURSIVE typesResolve(_, _, _)
typesResolve(types, i, st) ==
    IF i > Len(types) THEN st
    ELSE LET type == types[i]
             r == extToMimeCached(type, st.mc)
         IN typesResolve(types, i + 1,
                IF validMime(r.val)
                THEN [mc |-> r.mc,
                      mimes |-> Append(st.mimes, r.val.str),
                      mimeMap |-> MapSet(st.mimeMap, r.val.str, Str(type)),
                      resolved |-> Append(st.resolved, type),
                      looked |-> st.looked \o r.looked]
                ELSE [st EXCEPT !.mc = r.mc, !.resolved = Append(st.resolved, type),
                                !.looked = st.looked \o r.looked])

\* Accepts.prototype.types
types(this, form, args, nc, mc) ==
    LET list == flatten(form, args)
    IN IF ~Truthy(list) \/ Len(list.list) = 0
       THEN Outcome(Arr(mediaTypes(this.negotiator, Undefined)), nc, mc,
                    <<EngineCall("mediaTypes", this.headers["accept"], Undefined)>>,
                    <<>>, <<>>, "all")
       ELSE IF noAcceptHeader(this)
       THEN Outcome(Str(list.list[1]), nc, mc, <<>>, <<>>, <<>>, "noheader")
       ELSE IF Len(list.list) = 1
       THEN LET single == extToMimeCached(list.list[1], mc)
            IN IF ~validMime(single.val)
               THEN Outcome(False, nc, single.mc, <<>>, <<list.list[1]>>, single.looked,
                            "single")
               ELSE LET provided == Arr(<<single.val.str>>)
                        singleResult == mediaTypes(this.negotiator, provided)
                    IN Outcome(IF Len(singleResult) > 0 /\ Len(singleResult[1]) > 0
                               THEN Str(list.list[1]) ELSE False,
                               nc, single.mc,
                               <<EngineCall("mediaTypes", this.headers["accept"], provided)>>,
                               <<list.list[1]>>, single.looked, "single")
       ELSE LET cacheKey == typesCacheKey(this.headers["accept"].str, list.list)
                cached == MapGet(nc, cacheKey)
            IN IF cached # Undefined
               THEN Outcome(cached, nc, mc, <<>>, <<>>, <<>>, "hit")
               ELSE LET st == typesResolve(list.list, 1,
                                  [mc |-> mc, mimes |-> <<>>, mimeMap |-> <<>>,
                                   resolved |-> <<>>, looked |-> <<>>])
                        accepts == mediaTypes(this.negotiator, Arr(st.mimes))
                        first == IF Len(accepts) > 0 THEN Str(accepts[1]) ELSE Undefined
                        result == IF Truthy(first) THEN MapGet(st.mimeMap, first.str) ELSE False
                        evicted == IF Len(nc) >= CACHE_SIZE_LIMIT
                                   THEN typesEvict(nc, MapKeys(nc), 0) ELSE nc
                    IN Outcome(result, MapSet(evicted, cacheKey, result), st.mc,
                               <<EngineCall("mediaTypes", this.headers["accept"], Arr(st.mimes))>>,
                               st.resolved, st.looked, "miss")

\* Accepts.prototype.encodings
encodings(this, form, args, nc, mc) ==
    LET list == flatten(form, args)
    IN IF ~Truthy(list) \/ Len(list.list) = 0
       THEN Outcome(Arr(negotiatorEncodings(this.negotiator, Undefined)), nc, mc,
                    <<EngineCall("encodings", this.headers["accept-encoding"], Undefined)>>,
                    <<>>, <<>>, "all")
       ELSE LET header == this.headers["accept-encoding"]
                cacheKey == encodingsCacheKey(header.str, list.list)
                cached == IF Truthy(header) THEN MapGet(nc, cacheKey) ELSE Undefined
            IN IF Truthy(header) /\ cached # Undefined
               THEN Outcome(cached, nc, mc, <<>>, <<>>, <<>>, "hit")
               ELSE LET accepts == negotiatorEncodings(this.negotiator, list)
                        result == IF Len(accepts) > 0 /\ Len(accepts[1]) > 0
                                  THEN Str(accepts[1]) ELSE False
                        evicted == IF Len(nc) >= CACHE_SIZE_LIMIT
                                   THEN clearCacheEntries(nc, MapKeys(nc), 0) ELSE nc
                    IN Outcome(result,
                               IF Truthy(header) THEN MapSet(evicted, cacheKey, result) ELSE nc,
                               mc,
                               <<EngineCall("encodings", header, list)>>, <<>>, <<>>,
                               IF Truthy(header) THEN "miss" ELSE "uncached")

\* Accepts.prototype.charsets
charsets(this, form, args, nc, mc) ==
    LET list == flatten(form, args)
    IN IF ~Truthy(list) \/ Len(list.list) = 0
       THEN Outcome(Arr(negotiatorCharsets(this.negotiator, Undefined)), nc, mc,
                    <<EngineCall("charsets", this.headers["accept-charset"], Undefined)>>,
                    <<>>, <<>>, "all")
       ELSE LET header == this.headers["accept-charset"]
                cacheKey == charsetsCacheKey(header.str, list.list)
                cached == IF Truthy(header) THEN MapGet(nc, cacheKey) ELSE Undefined
            IN IF Truthy(header) /\ cached # Undefined
               THEN Outcome(cached, nc, mc, <<>>, <<>>, <<>>, "hit")
               ELSE LET accepts == negotiatorCharsets(this.negotiator, list)
                        result == IF Len(accepts) > 0 /\ Len(accepts[1]) > 0
                                  THEN Str(accepts[1]) ELSE False
                        evicted == IF Len(nc) >= CACHE_SIZE_LIMIT
                                   THEN clearCacheEntries(nc, MapKeys(nc), 0) ELSE nc
                    IN Outcome(result,
                               IF Truthy(header) THEN MapSet(evicted, cacheKey, result) ELSE nc,
                               mc,
                               <<EngineCall("charsets", header, list)>>, <<>>, <<>>,
                               IF Truthy(header) THEN "miss" ELSE "uncached")

\* Accepts.prototype.languages
languages(this, form, args, nc, mc) ==
    LET list == flatten(form, args)
    IN IF ~Truthy(list) \/ Len(list.list) = 0
       THEN Outcome(Arr(negotiatorLanguages(this.negotiator, Undefined)), nc, mc,
                    <<EngineCall("languages", this.headers["accept-language"], Undefined)>>,
                    <<>>, <<>>, "all")
       ELSE LET header == this.headers["accept-language"]
                cacheKey == languagesCacheKey(header.str, list.list)
                cached == IF Truthy(header) THEN MapGet(nc, cacheKey) ELSE Undefined
            IN IF Truthy(header) /\ cached # Undefined
               THEN Outcome(cached, nc, mc, <<>>, <<>>, <<>>, "hit")
               ELSE LET accepts == negotiatorLanguages(this.negotiator, list)
                        result == IF Len(accepts) > 0 /\ Len(accepts[1]) > 0
                                  THEN Str(accepts[1]) ELSE False
                        evicted == IF Len(nc) >= CACHE_SIZE_LIMIT
                                   THEN clearCacheEntries(nc, MapKeys(nc), 0) ELSE nc
                    IN Outcome(result,
                               IF Truthy(header) THEN MapSet(evicted, cacheKey, result) ELSE nc,
                               mc,
                               <<EngineCall("languages", header, list)>>, <<>>, <<>>,
                               IF Truthy(header) THEN "miss" ELSE "uncached")

(***************************************************************************)
(* The explored requests and candidate lists                               *)
(***************************************************************************)
Headers(accept, acceptEncoding, acceptCharset, acceptLanguage) ==
    [headers |-> ("accept" :> accept) @@ ("accept-encoding" :> acceptEncoding)
                 @@ ("accept-charset" :> acceptCharset)
                 @@ ("accept-language" :> acceptLanguage)]

\* A request that sent none of the four headers.
ReqNone == Headers(Undefined, Undefined, Undefined, Undefined)

\* A request whose Accept and Accept-Encoding are present and empty.
ReqEmpty == Headers(Str(Empty), Str(Empty), Undefined, Undefined)

\* h,a/j,t/h
EncodingHeader == Html \o <<",">> \o AppJson \o <<",">> \o TextHtml

\* Accept: enc:h,a/j,t/h   Accept-Encoding: h,a/j,t/h
\* Accept-Charset: u       Accept-Language: e
ReqFull ==
    Headers(Str(<<"e", "n", "c", ":">> \o EncodingHeader), Str(EncodingHeader),
            Str(Utf8), Str(En))

Requests == {ReqNone, ReqEmpty, ReqFull}

\* op([c1, ..., cn]) and op(c1, ..., cn)
Forms == {"array", "variadic"}

TypesArgs ==
    { <<>>, <<Html>>, <<Zzz>>, <<Html, TextHtml>>, <<Zzz, Html, AppJson>>, <<Zzz, Zzz>> }

EncodingsArgs == { <<>>, <<Zzz, Html, AppJson>>, <<Html, XCommaY>>, <<HtmlCommaX, Y>> }

CharsetsArgs == { <<>>, <<Empty, Utf8>> }

LanguagesArgs == { <<>>, <<Es, En>> }

ArgsOf(op) ==
    CASE op = "types" -> TypesArgs
      [] op = "encodings" -> EncodingsArgs
      [] op = "charsets" -> CharsetsArgs
      [] op = "languages" -> LanguagesArgs

Ops == {"types", "encodings", "charsets", "languages"}

\* A call: accepts(req).op(args) in either argument form.
Call(op, req, form, args) == [op |-> op, req |-> req, form |-> form, args |-> args]

Calls ==
    UNION { { Call(op, req, form, args) : req \in Requests, form \in Forms, args \in ArgsOf(op) }
            : op \in Ops }

\* The call made on a new context for its request, from the given caches.
Run(call, nc, mc) ==
    LET this == Accepts(call.req)
    IN CASE call.op = "types" -> types(this, call.form, call.args, nc, mc)
         [] call.op = "encodings" -> encodings(this, call.form, call.args, nc, mc)
         [] call.op = "charsets" -> charsets(this, call.form, call.args, nc, mc)
         [] call.op = "languages" -> languages(this, call.form, call.args, nc, mc)

\* The header an operation negotiates on.
HeaderName(op) ==
    CASE op = "types" -> "accept"
      [] op = "encodings" -> "accept-encoding"
      [] op = "charsets" -> "accept-charset"
      [] op = "languages" -> "accept-language"

HeaderOf(call) == call.req.headers[HeaderName(call.op)]

\* The candidate list of a call after "support flattened arguments"; a call
\* has candidates when that list is an array that is not empty.
Candidates(call) == flatten(call.form, call.args).list

HasCandidates(call) ==
    Truthy(flatten(call.form, call.args)) /\ Len(Candidates(call)) > 0

\* The calls that reach the negotiationCache, and the key each builds.
BuildsKey(call) ==
    /\ HasCandidates(call)
    /\ Truthy(HeaderOf(call))
    /\ call.op = "types" => Len(Candidates(call)) >= 2

KeyOf(call) ==
    CASE call.op = "types" -> typesCacheKey(HeaderOf(call).str, Candidates(call))
      [] call.op = "encodings" -> encodingsCacheKey(HeaderOf(call).str, Candidates(call))
      [] call.op = "charsets" -> charsetsCacheKey(HeaderOf(call).str, Candidates(call))
      [] call.op = "languages" -> languagesCacheKey(HeaderOf(call).str, Candidates(call))

(***************************************************************************)
(* State machine.  Beside the two caches of the program the state keeps    *)
(* what a run observed: writer is, for each key of the negotiationCache,   *)
(* the call that wrote it; last is the latest call's operation, header,    *)
(* path and result and whether it evicted; watch is one earlier call and   *)
(* its result, remembered in the runs that start with watching set (those  *)
(* runs leave last alone).  proc is, for each context, the call it is in   *)
(* and the place it has reached in it; the runs of Spec and SpecWatch take *)
(* a call as one step and leave every context idle.                        *)
(***************************************************************************)
Contexts == 1..NUM_CONTEXTS

\* A context that is in no call.
Idle ==
    [pc |-> "idle", call |-> Call("none", ReqNone, "array", <<>>), nc0 |-> <<>>,
     mc0 |-> <<>>, i |-> 0, mimes |-> <<>>, mimeMap |-> <<>>, result |-> Undefined,
     j |-> 0]

NoLast ==
    [op |-> "none", header |-> Undefined, path |-> "none", ret |-> Undefined,
     evicted |-> FALSE]

NoWatch == [set |-> FALSE, call |-> Call("none", ReqNone, "array", <<>>), ret |-> Undefined]

\* var negotiationCache = new Map(); var mimeCache = new Map()
Init ==
    /\ negotiationCache = <<>>
    /\ mimeCache = <<>>
    /\ writer = <<>>
    /\ last = NoLast
    /\ watch = NoWatch
    /\ watching = FALSE
    /\ proc = [c \in Contexts |-> Idle]

InitWatch ==
    /\ negotiationCache = <<>>
    /\ mimeCache = <<>>
    /\ writer = <<>>
    /\ last = NoLast
    /\ watch = NoWatch
    /\ watching = TRUE
    /\ proc = [c \in Contexts |-> Idle]

Observed(call, o) ==
    IF watching THEN NoLast
    ELSE [op |-> call.op, header |-> HeaderOf(call), path |-> o.path, ret |-> o.ret,
          evicted |-> \E i \in 1..Len(negotiationCache) :
                          ~MapHas(o.nc, negotiationCache[i].key)]

\* The writers of the keys the call leaves in the negotiationCache.
Written(call, o) ==
    LET w == IF o.path = "miss"
             THEN (KeyOf(call) :> [op |-> call.op, header |-> HeaderOf(call),
                                   list |-> Candidates(call)]) @@ writer
             ELSE writer
    IN [k \in {o.nc[i].key : i \in 1..Len(o.nc)} |-> w[k]]

\* The calls watch may remember: those of the general path, array form.
Watchable(call) ==
    call.form = "array" /\ call.req = ReqFull /\ Len(call.args) >= 2

Remembered(call, o) ==
    {watch} \cup (IF watching /\ ~watch.set /\ Watchable(call)
                  THEN {[set |-> TRUE, call |-> call, ret |-> o.ret]} ELSE {})

\* accepts(req).types(...)
Types ==
    \E req \in Requests, form \in Forms, args \in TypesArgs :
        LET call == Call("types", req, form, args)
            o == types(Accepts(req), form, args, negotiationCache, mimeCache)
        IN /\ negotiationCache' = o.nc
           /\ mimeCache' = o.mc
           /\ writer' = Written(call, o)
           /\ last' = Observed(call, o)
           /\ watch' \in Remembered(call, o)
           /\ UNCHANGED <<watching, proc>>

\* accepts(req).encodings(...)
Encodings ==
    \E req \in Requests, form \in Forms, args \in EncodingsArgs :
        LET call == Call("encodings", req, form, args)
            o == encodings(Accepts(req), form, args, negotiationCache, mimeCache)
        IN /\ negotiationCache' = o.nc
           /\ mimeCache' = o.mc
           /\ writer' = Written(call, o)
           /\ last' = Observed(call, o)
           /\ watch' \in Remembered(call, o)
           /\ UNCHANGED <<watching, proc>>

\* accepts(req).charsets(...)
Charsets ==
    \E req \in Requests, form \in Forms, args \in CharsetsArgs :
        LET call == Call("charsets", req, form, args)
            o == charsets(Accepts(req), form, args, negotiationCache, mimeCache)
        IN /\ negotiationCache' = o.nc
           /\ mimeCache' = o.mc
           /\ writer' = Written(call, o)
           /\ last' = Observed(call, o)
           /\ watch' \in Remembered(call, o)
           /\ UNCHANGED <<watching, proc>>

\* accepts(req).languages(...)
Languages ==
    \E req \in Requests, form \in Forms, args \in LanguagesArgs :
        LET call == Call("languages", req, form, args)
            o == languages(Accepts(req), form, args, negotiationCache, mimeCache)
        IN /\ negotiationCache' = o.nc
           /\ mimeCache' = o.mc
           /\ writer' = Written(call, o)
           /\ last' = Observed(call, o)
           /\ watch' \in Remembered(call, o)
           /\ UNCHANGED <<watching, proc>>

Next == Types \/ Encodings \/ Charsets \/ Languages

Spec == Init /\ [][Next]_vars

\* The runs that remember one earlier call.
SpecWatch == InitWatch /\ [][Next]_vars

(***************************************************************************)
(* The calls taken one statement group at a time.  A call that reaches the *)
(* cache lookup goes through: the lookup of its key; for types the loop    *)
(* over the candidates, one candidate a step; the Engine call; the test of *)
(* the size; the eviction loop, one delete a step; the set; the return.    *)
(* Every other call is one step and the return.  The four operations are   *)
(* ordinary functions without await, yield or callback, so a call that has *)
(* begun runs to its return before any other call begins.                  *)
(***************************************************************************)
\* Calls that begin whatever the other contexts are in.
Preemptive(c) == TRUE

\* No other call is in progress when a call begins.
RunToCompletion(c) == \A d \in Contexts : proc[d].pc = "idle"

\* The result of the Engine call of the general path: lines 146-148 of types,
\* `this.negotiator.encodings(encodings)[0] || false` and its two likes.
negotiated(call, mimes, mimeMap) ==
    LET negotiator == Negotiator(call.req)
        list == Arr(Candidates(call))
        accepts ==
            CASE call.op = "types" -> mediaTypes(negotiator, Arr(mimes))
              [] call.op = "encodings" -> negotiatorEncodings(negotiator, list)
              [] call.op = "charsets" -> negotiatorCharsets(negotiator, list)
              [] call.op = "languages" -> negotiatorLanguages(negotiator, list)
    IN IF call.op = "types"
       THEN LET first == IF Len(accepts) > 0 THEN Str(accepts[1]) ELSE Undefined
            IN IF Truthy(first) THEN MapGet(mimeMap, first.str) ELSE False
       ELSE IF Len(accepts) > 0 /\ Len(accepts[1]) > 0 THEN Str(accepts[1]) ELSE False

\* A context enters an operation: the arguments are flattened and the tests
\* before the cache key are made.
Begin(c) ==
    /\ RunToCompletion(c)
    /\ proc[c].pc = "idle"
    /\ \E call \in Calls :
           proc' = [proc EXCEPT ![c] =
                        [Idle EXCEPT !.pc = IF BuildsKey(call) THEN "lookup" ELSE "direct",
                                     !.call = call,
                                     !.nc0 = negotiationCache,
                                     !.mc0 = mimeCache]]
    /\ UNCHANGED <<negotiationCache, mimeCache, writer, last, watch, watching>>

\* A call that returns before the cache key, or that has no header to build
\* it from.
Direct(c) ==
    /\ proc[c].pc = "direct"
    /\ LET o == Run(proc[c].call, negotiationCache, mimeCache)
       IN /\ negotiationCache' = o.nc
          /\ mimeCache' = o.mc
          /\ proc' = [proc EXCEPT ![c].pc = "return", ![c].result = o.ret]
    /\ UNCHANGED <<writer, last, watch, watching>>

\* var cached = negotiationCache.get(cacheKey); if (cached !== undefined)
Lookup(c) ==
    /\ proc[c].pc = "lookup"
    /\ LET cached == MapGet(negotiationCache, KeyOf(proc[c].call))
       IN proc' = [proc EXCEPT ![c] =
                       IF cached # Undefined
                       THEN [@ EXCEPT !.pc = "return", !.result = cached]
                       ELSE IF proc[c].call.op = "types"
                       THEN [@ EXCEPT !.pc = "resolve", !.i = 1]
                       ELSE [@ EXCEPT !.pc = "negotiate"]]
    /\ UNCHANGED <<negotiationCache, mimeCache, writer, last, watch, watching>>

\* One turn of the loop of types over its candidates.
Resolve(c) ==
    /\ proc[c].pc = "resolve"
    /\ LET list == Candidates(proc[c].call)
           i == proc[c].i
           st == typesResolve(SubSeq(list, 1, i), i,
                              [mc |-> mimeCache, mimes |-> proc[c].mimes,
                               mimeMap |-> proc[c].mimeMap, resolved |-> <<>>,
                               looked |-> <<>>])
       IN /\ mimeCache' = st.mc
          /\ proc' = [proc EXCEPT ![c].mimes = st.mimes,
                                  ![c].mimeMap = st.mimeMap,
                                  ![c].i = i + 1,
                                  ![c].pc = IF i + 1 > Len(list) THEN "negotiate"
                                            ELSE "resolve"]
    /\ UNCHANGED <<negotiationCache, writer, last, watch, watching>>

\* The Engine call and the result made of it.
Negotiate(c) ==
    /\ proc[c].pc = "negotiate"
    /\ proc' = [proc EXCEPT ![c].result = negotiated(proc[c].call, proc[c].mimes,
                                                      proc[c].mimeMap),
                            ![c].pc = "check"]
    /\ UNCHANGED <<negotiationCache, mimeCache, writer, last, watch, watching>>

\* if (negotiationCache.size >= CACHE_SIZE_LIMIT)
Check(c) ==
    /\ proc[c].pc = "check"
    /\ proc' = [proc EXCEPT ![c].pc = IF Len(negotiationCache) >= CACHE_SIZE_LIMIT
                                      THEN "evict" ELSE "insert"]
    /\ UNCHANGED <<negotiationCache, mimeCache, writer, last, watch, watching>>

\* One turn of the eviction loop. The iterator of keys() has deleted every key
\* it has passed, so its next key is the first key of the Map; the loop of
\* types deletes undefined when there is none, clearCacheEntries breaks.
Evict(c) ==
    /\ proc[c].pc = "evict"
    /\ LET done == Len(negotiationCache) = 0
           j == proc[c].j
       IN /\ negotiationCache' = IF done THEN negotiationCache
                                 ELSE MapDelete(negotiationCache, negotiationCache[1].key)
          /\ proc' = [proc EXCEPT ![c] =
                          IF done /\ proc[c].call.op # "types"
                          THEN [@ EXCEPT !.pc = "insert"]
                          ELSE [@ EXCEPT !.j = j + 1,
                                         !.pc = IF j + 1 >= EVICT_COUNT THEN "insert"
                                                ELSE "evict"]]
    /\ UNCHANGED <<mimeCache, writer, last, watch, watching>>

\* negotiationCache.set(cacheKey, result)
Insert(c) ==
    /\ proc[c].pc = "insert"
    /\ negotiationCache' = MapSet(negotiationCache, KeyOf(proc[c].call), proc[c].result)
    /\ proc' = [proc EXCEPT ![c].pc = "return"]
    /\ UNCHANGED <<mimeCache, writer, last, watch, watching>>

\* return result
Return(c) ==
    /\ proc[c].pc = "return"
    /\ proc' = [proc EXCEPT ![c] = Idle]
    /\ UNCHANGED <<negotiationCache, mimeCache, writer, last, watch, watching>>

NextSteps ==
    \E c \in Contexts :
        \/ Begin(c)
        \/ Direct(c)
        \/ Lookup(c)
        \/ Resolve(c)
        \/ Negotiate(c)
        \/ Check(c)
        \/ Evict(c)
        \/ Insert(c)
        \/ Return(c)

\* The runs in which the contexts make their calls one statement group at a
\* time.
SpecSteps == Init /\ [][NextSteps]_vars

(***************************************************************************)
(* Claims                                                                  *)
(***************************************************************************)
\* The call made now, and the same call with the negotiationCache bypassed.
Now(call) == Run(call, negotiationCache, mimeCache)

Bypassed(call) == Run(call, <<>>, mimeCache)

\* The candidates the Engine is to decide on: for types the valid resolved
\* ones, in the caller's order.
RECURSIVE Offered(_, _)
Offered(op, list) ==
    IF Len(list) = 0 THEN <<>>
    ELSE IF op # "types" THEN list
    ELSE (IF validMime(extToMime(list[1])) THEN <<extToMime(list[1]).str>> ELSE <<>>)
             \o Offered(op, Tail(list))

EngineRanking(call) == Engine(HeaderOf(call), Arr(Offered(call.op, Candidates(call))))

\* C1: every call with candidates returns what the same call returns with the
\* negotiationCache bypassed.
C1_CacheTransparency ==
    \A call \in Calls :
        HasCandidates(call) => Now(call).ret = Bypassed(call).ret

\* C2: the negotiationCache never holds more than CACHE_SIZE_LIMIT entries.
C2_BoundInvariant == Len(negotiationCache) <= CACHE_SIZE_LIMIT

\* A miss that evicted and left the store at its limit.
C2_Witness ==
    /\ last.path = "miss"
    /\ last.evicted
    /\ Len(negotiationCache) = CACHE_SIZE_LIMIT

\* C3: within a family, a call whose header or candidate list differs from
\* those of the call that wrote a key builds a different key.
C3_KeyInjectivity ==
    \A k \in DOMAIN writer : \A call \in Calls :
        /\ BuildsKey(call)
        /\ call.op = writer[k].op
        /\ HeaderOf(call) # writer[k].header \/ Candidates(call) # writer[k].list
        => KeyOf(call) # k

\* C4: a key written by one family's operation is never the key of another
\* family's call.
C4_NoCrossFamilyCollision ==
    \A k \in DOMAIN writer : \A call \in Calls :
        BuildsKey(call) /\ call.op # writer[k].op => KeyOf(call) # k

\* C5: a result other than false is one of the call's own candidate tokens, as
\* passed.
C5_ReturnsOwnCandidate ==
    \A call \in Calls :
        HasCandidates(call) /\ Now(call).ret # False
        => /\ Now(call).ret.tag = "string"
           /\ \E i \in 1..Len(Candidates(call)) : Candidates(call)[i] = Now(call).ret.str

\* C6: a call with candidates whose valid candidates the Engine all rejects
\* returns false. (types on a request without Accept is left out: there no
\* candidate is rejected, the first one is the answer by design.)
C6_NoMatchIsFalse ==
    \A call \in Calls :
        /\ HasCandidates(call)
        /\ ~(call.op = "types" /\ HeaderOf(call) = Undefined)
        /\ EngineRanking(call) = <<>>
        => Now(call).ret = False

\* C7: the remembered call, made again now on a new context for the same
\* request, returns what it returned then.
C7_Idempotence ==
    watch.set => Now(watch.call).ret = watch.ret

\* C8: with no Accept header, types with candidates returns the first candidate
\* as passed and invokes neither extToMimeCached nor the Engine.
C8_AbsentAcceptFastPath ==
    \A call \in Calls :
        call.op = "types" /\ HeaderOf(call) = Undefined /\ HasCandidates(call)
        => LET o == Now(call)
           IN /\ o.ret = Str(Candidates(call)[1])
              /\ o.engine = <<>>
              /\ o.resolved = <<>>
              /\ o.looked = <<>>
              /\ o.mc = mimeCache

\* types on a request without Accept returned the unknown extension it was
\* given first.
C8_Witness ==
    /\ last.op = "types"
    /\ last.header = Undefined
    /\ last.path = "noheader"
    /\ last.ret = Str(Zzz)

\* C9: op(c1, ..., cn) returns and does to the caches what op([c1, ..., cn])
\* does.
C9_VariadicArrayEquivalence ==
    \A op \in Ops, req \in Requests : \A args \in ArgsOf(op) :
        Len(args) > 0
        => LET v == Now(Call(op, req, "variadic", args))
               a == Now(Call(op, req, "array", args))
           IN v.ret = a.ret /\ v.nc = a.nc /\ v.mc = a.mc

\* C10: on a types miss whose top-ranked media type is the resolution of two
\* or more candidates, the first listed of them is returned.
C10_FirstOccurrenceWins ==
    \A call \in Calls :
        LET o == Now(call)
            top == EngineRanking(call)[1]
            from == {i \in 1..Len(Candidates(call)) : extToMime(Candidates(call)[i]) = Str(top)}
        IN /\ call.op = "types"
           /\ HasCandidates(call)
           /\ o.path = "miss"
           /\ Len(EngineRanking(call)) > 0
           /\ Cardinality(from) >= 2
           => o.ret = Str(Candidates(call)[CHOOSE i \in from : \A j \in from : i <= j])

\* The entry a miss sets: the call's key with the value it returns.
Entry(call, o) == [key |-> KeyOf(call), val |-> o.ret]

\* C11: a call that misses while the negotiationCache holds CACHE_SIZE_LIMIT
\* entries or more leaves it without its EVICT_COUNT oldest entries and with
\* the new entry last; a miss below the limit only appends the new entry; any
\* other call leaves the negotiationCache as it is.
C11_EvictionPolicy ==
    \A call \in Calls :
        LET o == Now(call)
            size == Len(negotiationCache)
        IN IF o.path = "miss"
           THEN IF size >= CACHE_SIZE_LIMIT
                THEN o.nc = Append(SubSeq(negotiationCache, EVICT_COUNT + 1, size),
                                   Entry(call, o))
                ELSE o.nc = Append(negotiationCache, Entry(call, o))
           ELSE o.nc = negotiationCache

\* The key of the remembered call, which was in the store when that call
\* returned, is no longer there: later misses evicted it, and the store is
\* full again.
C11_Witness ==
    /\ watch.set
    /\ watch.call.op = "types"
    /\ Len(negotiationCache) = CACHE_SIZE_LIMIT
    /\ \A i \in 1..Len(negotiationCache) : negotiationCache[i].key # KeyOf(watch.call)

\* The first n entries of the negotiationCache, and what an eviction leaves
\* of a store: everything after its first EVICT_COUNT entries.
Oldest(n) == SubSeq(negotiationCache, 1, n)

AfterBatch(store) ==
    SubSeq(store, (IF Len(store) < EVICT_COUNT THEN Len(store) ELSE EVICT_COUNT) + 1,
           Len(store))

\* C12: after a call that missed, the negotiationCache maps the call's key to
\* the value the call returns, eviction or not; and both eviction loops, run on
\* a store of any size down to the empty one, remove the first EVICT_COUNT
\* entries or all the entries there are, and nothing else.
C12_MissIsStored ==
    /\ \A call \in Calls :
           LET o == Now(call)
           IN o.path = "miss"
              => \E i \in 1..Len(o.nc) : o.nc[i] = Entry(call, o)
    /\ \A n \in 0..Len(negotiationCache) :
           /\ clearCacheEntries(Oldest(n), MapKeys(Oldest(n)), 0) = AfterBatch(Oldest(n))
           /\ typesEvict(Oldest(n), MapKeys(Oldest(n)), 0) = AfterBatch(Oldest(n))

\* The remembered encodings call returned false, and the newest entry of the
\* full store is its key with false.
C12_Witness ==
    /\ watch.set
    /\ watch.call.op = "encodings"
    /\ watch.ret = False
    /\ Len(negotiationCache) = CACHE_SIZE_LIMIT
    /\ negotiationCache[CACHE_SIZE_LIMIT] = [key |-> KeyOf(watch.call), val |-> False]
    /\ writer[KeyOf(watch.call)].op = "encodings"

\* C13: a call sets a key of the negotiationCache only when the key is not in
\* it, and every key that is in it before and after a call has the same value
\* after as before.
C13_WriteOnce ==
    \A call \in Calls :
        LET o == Now(call)
        IN /\ o.path = "miss"
              => \A i \in 1..Len(negotiationCache) : negotiationCache[i].key # KeyOf(call)
           /\ \A i \in 1..Len(negotiationCache) : \A j \in 1..Len(o.nc) :
                  o.nc[j].key = negotiationCache[i].key
                  => o.nc[j].val = negotiationCache[i].val

\* The key of the remembered encodings call is in the store with the value
\* that call returned, and it was types that wrote it: the remembered call
\* found the key and did not write.
C13_Witness ==
    /\ watch.set
    /\ watch.call.op = "encodings"
    /\ \E i \in 1..Len(negotiationCache) :
           /\ negotiationCache[i].key = KeyOf(watch.call)
           /\ negotiationCache[i].val = watch.ret
           /\ writer[negotiationCache[i].key].op = "types"

\* C14: a call that builds a key found in the negotiationCache returns the
\* value stored under it, false included, invokes neither the Engine nor
\* extToMimeCached, and leaves both caches as they are; and any call that
\* builds a key, made again right after itself, does not invoke the Engine.
C14_HitReturnsStored ==
    \A call \in Calls :
        BuildsKey(call)
        => LET o == Now(call)
               again == Run(call, o.nc, o.mc)
           IN /\ \A i \in 1..Len(negotiationCache) :
                     negotiationCache[i].key = KeyOf(call)
                     => /\ o.ret = negotiationCache[i].val
                        /\ o.engine = <<>>
                        /\ o.resolved = <<>>
                        /\ o.looked = <<>>
                        /\ o.nc = negotiationCache
                        /\ o.mc = mimeCache
              /\ again.engine = <<>>
              /\ again.ret = o.ret
              /\ again.nc = o.nc
              /\ again.mc = o.mc

\* The remembered call returned false, its key is in the full store, and made
\* again now it is answered with the stored false.
C14_Witness ==
    /\ watch.set
    /\ watch.ret = False
    /\ Len(negotiationCache) = CACHE_SIZE_LIMIT
    /\ Now(watch.call).path = "hit"
    /\ Now(watch.call).ret = False

\* The calls of the fast paths: no candidates (any operation, nothing passed
\* or an empty array), types with one candidate, types without Accept.
FastPath(call) ==
    \/ ~HasCandidates(call)
    \/ call.op = "types" /\ Len(Candidates(call)) = 1
    \/ call.op = "types" /\ HeaderOf(call) = Undefined

\* C15: a call of a fast path leaves the negotiationCache as it is and returns
\* what it returns with the negotiationCache empty: no entry is read, set or
\* deleted.
C15_FastPathsBypass ==
    \A call \in Calls :
        FastPath(call)
        => LET o == Now(call)
           IN /\ o.nc = negotiationCache
              /\ o.path \notin {"hit", "miss"}
              /\ o.ret = Bypassed(call).ret

\* The store holds the entry of the remembered call and no other, and the
\* unknown extension is in the mimeCache: a types call with that extension
\* alone has resolved it (the remembered call does not have it, and a
\* general-path call that has it would have left a second entry).
C15_Witness ==
    /\ watch.set
    /\ watch.call.args = <<Html, TextHtml>>
    /\ negotiationCache = <<[key |-> KeyOf(watch.call), val |-> watch.ret]>>
    /\ Zzz \in DOMAIN mimeCache

\* C16: a call leaves every entry of the mimeCache in place with its value;
\* mime.lookup is invoked only for tokens without '/' that are not in the
\* mimeCache, once for each within the call, and its result, false included,
\* is then in the mimeCache; nothing else is added, so no token with '/' is
\* looked up or cached.
C16_ResolverWriteOnce ==
    \A call \in Calls :
        LET o == Now(call)
            tokens == {o.looked[i] : i \in 1..Len(o.looked)}
        IN /\ \A t \in DOMAIN mimeCache : t \in DOMAIN o.mc /\ o.mc[t] = mimeCache[t]
           /\ \A i \in 1..Len(o.looked) :
                  /\ o.looked[i] \notin DOMAIN mimeCache
                  /\ ~Contains(o.looked[i], "/")
                  /\ o.mc[o.looked[i]] = MimeLookup(o.looked[i])
                  /\ \A j \in 1..Len(o.looked) : o.looked[j] = o.looked[i] => j = i
           /\ DOMAIN o.mc = DOMAIN mimeCache \cup tokens
           /\ \A i \in 1..Len(o.resolved) :
                  o.resolved[i] \notin DOMAIN mimeCache /\ ~Contains(o.resolved[i], "/")
                  => o.resolved[i] \in tokens

\* The remembered types call dropped the unknown extension and returned a/j;
\* the unknown extension is cached as false and html as text/html.
C16_Witness ==
    /\ watch.set
    /\ watch.call.op = "types"
    /\ watch.call.args = <<Zzz, Html, AppJson>>
    /\ watch.ret = Str(AppJson)
    /\ Zzz \in DOMAIN mimeCache
    /\ mimeCache[Zzz] = False
    /\ Html \in DOMAIN mimeCache
    /\ mimeCache[Html] = Str(TextHtml)

\* The resolutions of the candidates that resolve to a string, in the order of
\* the candidates.
RECURSIVE ValidResolved(_)
ValidResolved(list) ==
    IF Len(list) = 0 THEN <<>>
    ELSE (IF extToMime(list[1]).tag = "string" THEN <<extToMime(list[1]).str>> ELSE <<>>)
             \o ValidResolved(Tail(list))

\* C17: the list a types call passes to mediaTypes is the list of the string
\* resolutions of its candidates, in the candidates' order: a candidate that
\* resolves to false is not in it. The general path passes that list even
\* when it is empty, the single path makes no Engine call for a candidate that
\* resolves to false.
C17_OnlyValidReachEngine ==
    \A call \in Calls :
        call.op = "types"
        => LET o == Now(call)
               valid == ValidResolved(Candidates(call))
           IN /\ \A e \in 1..Len(o.engine) :
                     o.engine[e].provided # Undefined
                     => /\ o.engine[e].provided = Arr(valid)
                        /\ \A i \in 1..Len(o.engine[e].provided.list) :
                               Contains(o.engine[e].provided.list[i], "/")
              /\ o.path = "miss" => o.engine = <<EngineCall("mediaTypes", HeaderOf(call), Arr(valid))>>
              /\ o.path = "single"
                 => o.engine = IF valid = <<>> THEN <<>>
                               ELSE <<EngineCall("mediaTypes", HeaderOf(call), Arr(valid))>>

\* The remembered types call had the unknown extension twice and nothing
\* else: the Engine was given the empty list and the call returned false.
C17_Witness ==
    /\ watch.set
    /\ watch.call.op = "types"
    /\ watch.call.args = <<Zzz, Zzz>>
    /\ watch.ret = False
    /\ Zzz \in DOMAIN mimeCache
    /\ Html \notin DOMAIN mimeCache

\* C18: a types call with candidates on a request whose Accept is the empty
\* string does not take the path of the missing Accept: it returns false when
\* the Engine accepts none of its candidates for that header.
C18_EmptyAcceptIsNotAbsent ==
    \A call \in Calls :
        call.op = "types" /\ HasCandidates(call) /\ HeaderOf(call) = Str(Empty)
        => LET o == Now(call)
           IN /\ o.path # "noheader"
              /\ EngineRanking(call) = <<>> => o.ret = False

====
